---- MODULE Spec2Model ----
(***************************************************************************)
(* Model of the address-book single page: the useForm hook, the search     *)
(* handler (handleAddressSubmit) with its in-flight fetches, the person    *)
(* handler (handlePersonSubmit) and the "Clear all fields" button.         *)
(*                                                                         *)
(* JavaScript strings are sequences of one-character strings; JavaScript   *)
(* values are records tagged with their typeof.                            *)
(*                                                                         *)
(* History variables: event is the last event handled; chosenHere holds    *)
(* while the selected radio was chosen in the result list now displayed;   *)
(* sinceClear holds from "Clear all fields" to the next form submission.   *)
(***************************************************************************)
EXTENDS Integers, Sequences, FiniteSets, TLC

VARIABLES values, initialValues, error, addresses, addressBook,
          requests, pending, event, chosenHere, sinceClear

vars == <<values, initialValues, error, addresses, addressBook,
          requests, pending, event, chosenHere, sinceClear>>

(* ------------------------------ bounds --------------------------------- *)

\* number of search requests issued in one behaviour
MaxRequests == 2
\* number of entries stored in the address book in one behaviour
MaxBook == 2

(* --------------------------- JavaScript values ------------------------- *)

Str(s) == [type |-> "string", val |-> s]
Bool(b) == [type |-> "boolean", val |-> b]
Num(n) == [type |-> "number", val |-> n]
Undefined == [type |-> "undefined", val |-> "undefined"]

\* JavaScript truthiness of a tagged value (!v is ~Truthy(v))
Truthy(v) ==
  CASE v.type = "string" -> v.val # <<>>
    [] v.type = "boolean" -> v.val
    [] v.type = "number" -> v.val # 0
    [] OTHER -> FALSE

IsWhiteSpace(c) == c = " "

RECURSIVE TrimStart(_)
TrimStart(s) ==
  IF s = <<>> THEN <<>>
  ELSE IF IsWhiteSpace(Head(s)) THEN TrimStart(Tail(s)) ELSE s

RECURSIVE TrimEnd(_)
TrimEnd(s) ==
  IF s = <<>> THEN <<>>
  ELSE IF IsWhiteSpace(s[Len(s)]) THEN TrimEnd(SubSeq(s, 1, Len(s) - 1)) ELSE s

\* String.prototype.trim
trim_untrimmed(s) == s
trim(s) == TrimEnd(TrimStart(s))

\* encodeURIComponent on the characters the inputs use: a space is escaped,
\* letters and digits are kept
EncodeChar(c) == IF c = " " THEN <<"%", "2", "0">> ELSE <<c>>

RECURSIVE encodeURIComponent(_)
encodeURIComponent(s) ==
  IF s = <<>> THEN <<>> ELSE EncodeChar(Head(s)) \o encodeURIComponent(Tail(s))

(* ------------------------------ messages ------------------------------- *)

MsgSearchMandatory == Str("Post code and house number are mandatory!")
MsgFetchFailed == Str("Failed to fetch addresses. Please try again.")
MsgNameMandatory == Str("First name and last name fields mandatory!")
MsgNoAddress ==
  Str("No address selected, try to select an address or find one if you haven't")
MsgNotFound == Str("Selected address not found")

(* ------------------------------- inputs -------------------------------- *)

AppFields == {"postCode", "houseNumber", "firstName", "lastName", "selectedAddress"}

\* the initial values App passes to useForm
AppInitialValues == [f \in AppFields |-> Str(<<>>)]

\* what the user types in the two search inputs and the two name inputs; the
\* last name is empty until typed and after "Clear all fields"
PostCodes == {<<>>, <<" ">>, <<" ", "1">>}
HouseNumbers == {<<>>, <<"3", " ">>}
FirstNames == {<<>>, <<" ">>, <<" ", "A">>}
LastNames == {<<"B">>}

\* the raw records the lookup API holds, in the order it returns them
RawRecords ==
  << [id |-> <<"a">>, street |-> "Main", city |-> "X", postcode |-> "1345"],
     [id |-> <<"b">>, street |-> "Side", city |-> "Y", postcode |-> "1345"] >>

\* the records of s at the positions of keep, in order
RECURSIVE Pick(_, _)
Pick(s, keep) ==
  IF s = <<>> THEN <<>>
  ELSE LET rest == Pick(SubSeq(s, 1, Len(s) - 1), keep)
       IN IF Len(s) \in keep THEN Append(rest, s[Len(s)]) ELSE rest

\* the details arrays of the successful responses: any selection of the
\* records, so an identifier is unique within one result set
Details == {Pick(RawRecords, keep) : keep \in SUBSET (1..Len(RawRecords))}

(* ------------------------------- useForm ------------------------------- *)

\* handleChange: setValues(prev => ({...prev, [name]: checkbox ? checked : value}))
handleChange_replacing(prev, name, type, value, checked) ==
  [k \in {name} |->
     IF type = "checkbox" THEN Bool(checked) ELSE Str(value)]
handleChange(prev, name, type, value, checked) ==
  [k \in (DOMAIN prev) \cup {name} |->
     IF k = name
     THEN (IF type = "checkbox" THEN Bool(checked) ELSE Str(value))
     ELSE prev[k]]

\* reset: setValues(initialValues)
reset_merging(current, initial) ==
  [k \in (DOMAIN current) \cup (DOMAIN initial) |->
     IF k \in DOMAIN initial THEN initial[k] ELSE current[k]]
reset(current, initial) == initial

(* --------------------------- address transformer ----------------------- *)

\* one raw record and a house number give one Address
transformAddress(raw, houseNumber) ==
  [id |-> raw.id, street |-> raw.street, city |-> raw.city,
   postcode |-> raw.postcode, houseNumber |-> houseNumber]

\* json.details.map(transformAddress): Array.prototype.map calls its callback
\* with (element, index, array), so the second argument is the 0-based index
MapTransform(details) ==
  [i \in 1..Len(details) |-> transformAddress(details[i], Num(i - 1))]

(* ---------------------------- address book ----------------------------- *)

\* useAddressBook().addAddress: append to the store
addAddress(book, entry) == Append(book, entry)

(* ------------------------- handleAddressSubmit ------------------------- *)

\* the check of line 64, negated: both trimmed inputs are non-empty
SearchInputOk(v) ==
  /\ Truthy(Str(trim(v["postCode"].val)))
  /\ Truthy(Str(trim(v["houseNumber"].val)))

\* the request of lines 70-74, with the variables its continuation closes over
RequestFor_trimmed(v) ==
  [postcode |-> encodeURIComponent(trim(v["postCode"].val)),
   streetnumber |-> encodeURIComponent(trim(v["houseNumber"].val)),
   houseNumber |-> v["houseNumber"]]
RequestFor(v) ==
  [postcode |-> encodeURIComponent(v["postCode"].val),
   streetnumber |-> encodeURIComponent(v["houseNumber"].val),
   houseNumber |-> v["houseNumber"]]

\* the last event handled: its handler, the request it issued or completed
\* (0 when none), the details array of an ok response, whether a reset
\* discarded anything, and the target of a change event of the hook on its own
Ev(kind, req, details) ==
  [kind |-> kind, req |-> req, details |-> details, dirty |-> FALSE,
   input |-> <<>>]

EvReset(kind, dirty) ==
  [kind |-> kind, req |-> 0, details |-> <<>>, dirty |-> dirty, input |-> <<>>]

\* e.target of a change event: name, type, value, checked
EvChange(name, type, value, checked) ==
  [kind |-> "handleChange", req |-> 0, details |-> <<>>, dirty |-> FALSE,
   input |-> <<name, type, Str(value), Bool(checked)>>]

\* lines 58-67: the submission clears the results and fails validation
SearchRejected ==
  /\ ~SearchInputOk(values)
  /\ addresses' = <<>>
  /\ error' = MsgSearchMandatory
  /\ event' = Ev("handleAddressSubmit", 0, <<>>)
  /\ chosenHere' = FALSE
  /\ sinceClear' = FALSE
  /\ UNCHANGED <<values, initialValues, addressBook, requests, pending>>

\* lines 58-74: the submission clears results and error and issues the request
SearchIssued ==
  /\ SearchInputOk(values)
  /\ Len(requests) < MaxRequests
  /\ addresses' = <<>>
  /\ error' = Undefined
  /\ requests' = Append(requests, RequestFor(values))
  /\ pending' = pending \cup {Len(requests) + 1}
  /\ event' = Ev("handleAddressSubmit", Len(requests) + 1, <<>>)
  /\ chosenHere' = FALSE
  /\ sinceClear' = FALSE
  /\ UNCHANGED <<values, initialValues, addressBook>>

handleAddressSubmit == SearchRejected \/ SearchIssued

\* lines 75-82: the response is ok and its details are transformed
FetchSucceeds(r, details) ==
  /\ r \in pending
  /\ pending' = pending \ {r}
  /\ addresses' = MapTransform(details)
  /\ event' = Ev("fetchOk", r, details)
  /\ chosenHere' = FALSE
  /\ UNCHANGED <<values, initialValues, error, addressBook, requests,
                 sinceClear>>

\* the ways a request ends in the catch block
Failures == {"notOk", "rejected", "badJson"}

\* lines 75-77 and 83-86: non-2xx response, rejected fetch or unparsable body
FetchFails_silent(r, why) ==
  /\ r \in pending
  /\ pending' = pending \ {r}
  /\ event' = Ev("fetchFailed", r, <<>>)
  /\ UNCHANGED <<values, initialValues, error, addresses, addressBook,
                 requests, chosenHere, sinceClear>>
FetchFails(r, why) ==
  /\ r \in pending
  /\ pending' = pending \ {r}
  /\ error' = MsgFetchFailed
  /\ event' = Ev("fetchFailed", r, <<>>)
  /\ UNCHANGED <<values, initialValues, addresses, addressBook, requests,
                 chosenHere, sinceClear>>

(* -------------------------- handlePersonSubmit ------------------------- *)

\* Array.prototype.find on address.id === selectedAddress: index of the first
\* match, 0 when there is none
find(list, selected) ==
  LET hits == {i \in 1..Len(list) : Str(list[i].id) = selected}
  IN IF hits = {} THEN 0 ELSE CHOOSE i \in hits : \A j \in hits : i <= j

\* lines 96-115: the first failing check, Undefined when all pass
personError_selectionFirst(v, list) ==
  IF ~Truthy(v["selectedAddress"]) \/ Len(list) = 0
  THEN MsgNoAddress
  ELSE IF ~Truthy(Str(trim(v["firstName"].val))) \/ ~Truthy(Str(trim(v["lastName"].val)))
  THEN MsgNameMandatory
  ELSE IF find(list, v["selectedAddress"]) = 0
  THEN MsgNotFound
  ELSE Undefined
personError(v, list) ==
  IF ~Truthy(Str(trim(v["firstName"].val))) \/ ~Truthy(Str(trim(v["lastName"].val)))
  THEN MsgNameMandatory
  ELSE IF ~Truthy(v["selectedAddress"]) \/ Len(list) = 0
  THEN MsgNoAddress
  ELSE IF find(list, v["selectedAddress"]) = 0
  THEN MsgNotFound
  ELSE Undefined

\* line 117: { ...foundAddress, firstName, lastName }
newEntry_trimmed(found, firstName, lastName) ==
  [id |-> found.id, street |-> found.street, city |-> found.city,
   postcode |-> found.postcode, houseNumber |-> found.houseNumber,
   firstName |-> Str(trim(firstName.val)), lastName |-> Str(trim(lastName.val))]
newEntry(found, firstName, lastName) ==
  [id |-> found.id, street |-> found.street, city |-> found.city,
   postcode |-> found.postcode, houseNumber |-> found.houseNumber,
   firstName |-> firstName, lastName |-> lastName]

PersonRejected ==
  /\ personError(values, addresses) # Undefined
  /\ error' = personError(values, addresses)
  /\ event' = Ev("handlePersonSubmit", 0, <<>>)
  /\ sinceClear' = FALSE
  /\ UNCHANGED <<values, initialValues, addresses, addressBook, requests,
                 pending, chosenHere>>

\* lines 93-117: every check passes and the entry is stored
PersonAdded_resetting ==
  /\ personError(values, addresses) = Undefined
  /\ Len(addressBook) < MaxBook
  /\ addressBook' =
       addAddress(addressBook,
                  newEntry(addresses[find(addresses, values["selectedAddress"])],
                           values["firstName"], values["lastName"]))
  /\ values' = reset(values, initialValues)
  /\ event' = Ev("handlePersonSubmit", 0, <<>>)
  /\ sinceClear' = FALSE
  /\ UNCHANGED <<initialValues, error, addresses, requests, pending,
                 chosenHere>>
PersonAdded_clearsError ==
  /\ personError(values, addresses) = Undefined
  /\ Len(addressBook) < MaxBook
  /\ addressBook' =
       addAddress(addressBook,
                  newEntry(addresses[find(addresses, values["selectedAddress"])],
                           values["firstName"], values["lastName"]))
  /\ error' = Undefined
  /\ event' = Ev("handlePersonSubmit", 0, <<>>)
  /\ sinceClear' = FALSE
  /\ UNCHANGED <<values, initialValues, addresses, requests, pending,
                 chosenHere>>
PersonAdded ==
  /\ personError(values, addresses) = Undefined
  /\ Len(addressBook) < MaxBook
  /\ addressBook' =
       addAddress(addressBook,
                  newEntry(addresses[find(addresses, values["selectedAddress"])],
                           values["firstName"], values["lastName"]))
  /\ event' = Ev("handlePersonSubmit", 0, <<>>)
  /\ sinceClear' = FALSE
  /\ UNCHANGED <<values, initialValues, error, addresses, requests, pending,
                 chosenHere>>

\* the person form is rendered, and so can be submitted, only while
\* selectedAddress is truthy (line 168)
handlePersonSubmit ==
  /\ Truthy(values["selectedAddress"])
  /\ (PersonRejected \/ PersonAdded)

(* ------------------------------ the inputs ----------------------------- *)

\* an InputText of the search form changes (lines 135-148)
ChangeSearchInput ==
  /\ \/ \E s \in PostCodes :
          values' = handleChange(values, "postCode", "text", s, FALSE)
     \/ \E s \in HouseNumbers :
          values' = handleChange(values, "houseNumber", "text", s, FALSE)
  /\ values' # values
  /\ event' = Ev("handleChange", 0, <<>>)
  /\ UNCHANGED <<initialValues, error, addresses, addressBook, requests,
                 pending, chosenHere, sinceClear>>

\* an InputText of the person form changes (lines 168-186)
ChangeNameInput ==
  /\ Truthy(values["selectedAddress"])
  /\ \/ \E s \in FirstNames :
          values' = handleChange(values, "firstName", "text", s, FALSE)
     \/ \E s \in LastNames :
          values' = handleChange(values, "lastName", "text", s, FALSE)
  /\ values' # values
  /\ event' = Ev("handleChange", 0, <<>>)
  /\ UNCHANGED <<initialValues, error, addresses, addressBook, requests,
                 pending, chosenHere, sinceClear>>

\* the Radio of a displayed address is chosen (lines 153-166)
SelectAddress ==
  /\ \E i \in 1..Len(addresses) :
       values' = handleChange(values, "selectedAddress", "radio",
                              addresses[i].id, TRUE)
  /\ values' # values \/ ~chosenHere
  /\ event' = Ev("handleChange", 0, <<>>)
  /\ chosenHere' = TRUE
  /\ UNCHANGED <<initialValues, error, addresses, addressBook, requests,
                 pending, sinceClear>>

\* the onClick of "Clear all fields" (lines 205-209), one batched update
ClearAll_keepsError ==
  /\ values' = reset(values, initialValues)
  /\ addresses' = <<>>
  /\ event' = EvReset("clearAll", values # initialValues \/ addresses # <<>>
                                   \/ error # Undefined)
  /\ chosenHere' = FALSE
  /\ sinceClear' = TRUE
  /\ UNCHANGED <<initialValues, error, addressBook, requests, pending>>
ClearAll_clearsBook ==
  /\ values' = reset(values, initialValues)
  /\ addresses' = <<>>
  /\ error' = Undefined
  /\ addressBook' = <<>>
  /\ event' = EvReset("clearAll", values # initialValues \/ addresses # <<>>
                                   \/ error # Undefined)
  /\ chosenHere' = FALSE
  /\ sinceClear' = TRUE
  /\ UNCHANGED <<initialValues, requests, pending>>
ClearAll ==
  /\ values' = reset(values, initialValues)
  /\ addresses' = <<>>
  /\ error' = Undefined
  /\ event' = EvReset("clearAll", values # initialValues \/ addresses # <<>>
                                   \/ error # Undefined)
  /\ chosenHere' = FALSE
  /\ sinceClear' = TRUE
  /\ UNCHANGED <<initialValues, addressBook, requests, pending>>

(* --------------------------- the application --------------------------- *)

Init ==
  /\ initialValues = AppInitialValues
  /\ values = initialValues
  /\ error = Undefined
  /\ addresses = <<>>
  /\ addressBook = <<>>
  /\ requests = <<>>
  /\ pending = {}
  /\ event = Ev("mount", 0, <<>>)
  /\ chosenHere = FALSE
  /\ sinceClear = FALSE

Next ==
  \/ ChangeSearchInput
  \/ ChangeNameInput
  \/ SelectAddress
  \/ handleAddressSubmit
  \/ \E r \in pending, d \in Details : FetchSucceeds(r, d)
  \/ \E r \in pending, why \in Failures : FetchFails(r, why)
  \/ handlePersonSubmit
  \/ ClearAll

Spec == Init /\ [][Next]_vars

\* request r completes, with an ok response or in the catch block
Complete(r) ==
  \/ \E d \in Details : FetchSucceeds(r, d)
  \/ \E why \in Failures : FetchFails(r, why)

\* the application when every issued request eventually completes
LiveSpec == Spec /\ \A r \in 1..MaxRequests : WF_vars(Complete(r))

\* the events of a user who only searches and clears: no radio is chosen, so
\* the person form is never rendered
SearchNext ==
  \/ ChangeSearchInput
  \/ handleAddressSubmit
  \/ \E r \in pending, d \in Details : FetchSucceeds(r, d)
  \/ \E r \in pending, why \in Failures : FetchFails(r, why)
  \/ ClearAll

\* the search workflow when every issued request eventually completes
SearchLiveSpec ==
  Init /\ [][SearchNext]_vars /\ \A r \in 1..MaxRequests : WF_vars(Complete(r))

(* ------------------------- the hook on its own -------------------------- *)

\* field names, initial values and inputs of a form other than App's
FormFields == {"f", "g"}
FormNames == FormFields \cup {"h"}
FormStrings == {<<>>, <<"x">>, <<"y">>}
FormInitials == [FormFields -> {Str(<<>>), Str(<<"x">>), Bool(FALSE)}]

FormInit ==
  /\ initialValues \in FormInitials
  /\ values = initialValues
  /\ error = Undefined
  /\ addresses = <<>>
  /\ addressBook = <<>>
  /\ requests = <<>>
  /\ pending = {}
  /\ event = Ev("mount", 0, <<>>)
  /\ chosenHere = FALSE
  /\ sinceClear = FALSE

\* a control named name fires onChange
FormChange ==
  /\ \E name \in FormNames, type \in {"text", "checkbox"},
        value \in FormStrings, checked \in BOOLEAN :
       /\ values' = handleChange(values, name, type, value, checked)
       /\ event' = EvChange(name, type, value, checked)
  /\ UNCHANGED <<initialValues, error, addresses, addressBook, requests,
                 pending, chosenHere, sinceClear>>

\* reset() is called
FormReset ==
  /\ values' = reset(values, initialValues)
  /\ event' = EvReset("reset", values # initialValues)
  /\ UNCHANGED <<initialValues, error, addresses, addressBook, requests,
                 pending, chosenHere, sinceClear>>

FormNext == FormChange \/ FormReset

FormSpec == FormInit /\ [][FormNext]_vars

(* ------------------------------ properties ----------------------------- *)

\* a string that is empty or made of white space only
IsBlank(s) == \A i \in 1..Len(s) : s[i] = " "

\* the positions of list whose identifier is the selected one
Matches(list, selected) == {i \in 1..Len(list) : Str(list[i].id) = selected}

\* C1: a search submission with an empty or whitespace-only postcode or house
\* number issues no request and sets the error message to
\* "Post code and house number are mandatory!".
C1_BlankSearchIsRejected ==
  [][(/\ event'.kind = "handleAddressSubmit"
      /\ IsBlank(values["postCode"].val) \/ IsBlank(values["houseNumber"].val))
     => (/\ error' = MsgSearchMandatory
         /\ requests' = requests
         /\ pending' = pending)]_vars

C1_Witness ==
  /\ event.kind = "handleAddressSubmit"
  /\ values["postCode"].val = <<" ">>
  /\ ~IsBlank(values["houseNumber"].val)
  /\ error = MsgSearchMandatory
  /\ requests = <<>>

\* C2: after a successful response of N raw records the result list has N
\* entries in the order of the response, each with the fields of its raw
\* record and the house number the form held when the search was submitted.
C2_ResultCarriesSubmittedHouseNumber ==
  event.kind = "fetchOk" =>
    /\ Len(addresses) = Len(event.details)
    /\ \A i \in 1..Len(addresses) :
         addresses[i] =
           [id |-> event.details[i].id, street |-> event.details[i].street,
            city |-> event.details[i].city,
            postcode |-> event.details[i].postcode,
            houseNumber |-> requests[event.req].houseNumber]

\* C3: in the state reached by a failed search the result list is empty and
\* the error message is "Failed to fetch addresses. Please try again.".
C3_FailedSearchLeavesNoResults ==
  event.kind = "fetchFailed" => (addresses = <<>> /\ error = MsgFetchFailed)

\* C4: a person submission with non-blank names and a selection that matches
\* an entry of the result list appends exactly one entry, the matched address
\* with the submitted names, after the unchanged prior entries, also when an
\* equal entry is stored already.
C4_PersonSubmitAppendsOneEntry ==
  [][(/\ event'.kind = "handlePersonSubmit"
      /\ ~IsBlank(values["firstName"].val)
      /\ ~IsBlank(values["lastName"].val)
      /\ values["selectedAddress"] # Str(<<>>)
      /\ Matches(addresses, values["selectedAddress"]) # {})
     => \E i \in Matches(addresses, values["selectedAddress"]) :
          /\ \A j \in Matches(addresses, values["selectedAddress"]) : i <= j
          /\ addressBook' =
               addressBook \o
                 << [id |-> addresses[i].id, street |-> addresses[i].street,
                     city |-> addresses[i].city,
                     postcode |-> addresses[i].postcode,
                     houseNumber |-> addresses[i].houseNumber,
                     firstName |-> values["firstName"],
                     lastName |-> values["lastName"]] >>]_vars

C4_Witness ==
  /\ event.kind = "handlePersonSubmit"
  /\ Len(addressBook) = 2
  /\ addressBook[1] = addressBook[2]
  /\ addressBook[2].firstName = values["firstName"]
  /\ addressBook[2].id = values["selectedAddress"].val

\* C5: a person submission reports the first failing check only: blank names,
\* then a missing selection or an empty result list, then a selection that
\* matches no entry of the result list.
C5_PersonValidationOrder ==
  [][event'.kind = "handlePersonSubmit" =>
       IF IsBlank(values["firstName"].val) \/ IsBlank(values["lastName"].val)
       THEN error' = MsgNameMandatory /\ addressBook' = addressBook
       ELSE IF values["selectedAddress"] = Str(<<>>) \/ addresses = <<>>
       THEN error' = MsgNoAddress /\ addressBook' = addressBook
       ELSE IF Matches(addresses, values["selectedAddress"]) = {}
       THEN error' = MsgNotFound /\ addressBook' = addressBook
       ELSE TRUE]_vars

C5_Witness ==
  /\ event.kind = "handlePersonSubmit"
  /\ values["firstName"].val = <<" ">>
  /\ addresses = <<>>
  /\ error = MsgNameMandatory

\* C6: a response that fills the result list is the response to the latest
\* search submission, never to an earlier one.
C6_NoStaleResults ==
  (event.kind = "fetchOk" /\ addresses # <<>>) => event.req = Len(requests)

\* C7: in the state reached by a successful search completion the error
\* message is unset.
C7_SuccessClearsError ==
  event.kind = "fetchOk" => error = Undefined

\* C8: after reset() the form values are exactly the initial values,
\* whatever changes came before.
C8_ResetRestoresInitial ==
  event.kind = "reset" => values = initialValues

C8_Witness ==
  /\ event.kind = "reset"
  /\ event.dirty
  /\ values = initialValues
  /\ initialValues["f"] = Str(<<"x">>)

\* C9: the state right after "Clear all fields" has every form value at its
\* initial value, an empty result list and no error message.
C9_ClearAllClearsEverything ==
  event.kind = "clearAll" =>
    (values = initialValues /\ addresses = <<>> /\ error = Undefined)

C9_Witness ==
  /\ event.kind = "clearAll"
  /\ event.dirty
  /\ pending # {}
  /\ values = initialValues /\ addresses = <<>> /\ error = Undefined

\* C10: a search submission that passes validation clears the result list
\* and the error message and issues exactly one request, for the postcode and
\* house number of the form; no other step, a failed completion included,
\* issues a request.
C10_OneRequestPerSubmission ==
  [][/\ (/\ event'.kind = "handleAddressSubmit"
         /\ ~IsBlank(values["postCode"].val)
         /\ ~IsBlank(values["houseNumber"].val))
        => /\ addresses' = <<>>
           /\ error' = Undefined
           /\ Len(requests') = Len(requests) + 1
           /\ SubSeq(requests', 1, Len(requests)) = requests
           /\ requests'[Len(requests')].postcode =
                encodeURIComponent(values["postCode"].val)
           /\ requests'[Len(requests')].streetnumber =
                encodeURIComponent(values["houseNumber"].val)
           /\ pending' = pending \cup {Len(requests')}
     /\ event'.kind = "handleAddressSubmit" => addresses' = <<>>
     /\ event'.kind # "handleAddressSubmit"
        => (requests' = requests /\ pending' \subseteq pending)
     /\ event'.kind = "fetchFailed"
        => (requests' = requests /\ pending' = pending \ {event'.req})]_vars

C10_Witness ==
  /\ event.kind = "handleAddressSubmit"
  /\ event.req = 2
  /\ pending = {2}
  /\ requests[2].postcode = <<"%", "2", "0", "1">>
  /\ requests[2].streetnumber = <<"3", "%", "2", "0">>
  /\ addresses = <<>>
  /\ error = Undefined

\* C11: a change for field name replaces only the entry of name, with the
\* value or, for a checkbox, with the checked flag, and leaves the value of
\* every other field as it was.
C11_ChangeReplacesOneEntry ==
  [][event'.kind = "handleChange" =>
       LET name == event'.input[1]
           type == event'.input[2]
           value == event'.input[3]
           checked == event'.input[4]
       IN /\ DOMAIN values' = (DOMAIN values) \cup {name}
          /\ values'[name] = (IF type = "checkbox" THEN checked ELSE value)
          /\ \A k \in (DOMAIN values) \ {name} : values'[k] = values[k]]_vars

C11_Witness ==
  /\ event.kind = "handleChange"
  /\ event.input[1] = "f"
  /\ event.input[2] = "checkbox"
  /\ values["f"] = Bool(TRUE)
  /\ values["g"] = Str(<<"y">>)
  /\ "h" \in DOMAIN values

\* C12: a step changes the address book only when it is a person submission
\* that passes the three checks, and then the book before the step is a
\* prefix of the book after it, one entry shorter.
C12_BookChangesOnlyByPersonSubmit ==
  [][addressBook' # addressBook =>
       /\ event'.kind = "handlePersonSubmit"
       /\ ~IsBlank(values["firstName"].val)
       /\ ~IsBlank(values["lastName"].val)
       /\ values["selectedAddress"] # Str(<<>>)
       /\ Matches(addresses, values["selectedAddress"]) # {}
       /\ Len(addressBook') = Len(addressBook) + 1
       /\ SubSeq(addressBook', 1, Len(addressBook)) = addressBook]_vars

C12_Witness ==
  /\ event.kind = "clearAll"
  /\ event.dirty
  /\ pending # {}
  /\ Len(addressBook) = 2

\* C13: a person submission leaves the form values and the result list as
\* they were; the form values change only by the user's change of one field
\* or by "Clear all fields", which alone sets them all to their initial values.
C13_PersonSubmitKeepsForm ==
  [][/\ event'.kind = "handlePersonSubmit"
        => (values' = values /\ addresses' = addresses)
     /\ (values' # values /\ event'.kind # "handleChange")
        => (event'.kind = "clearAll" /\ values' = initialValues)
     /\ (values' # values /\ event'.kind = "handleChange")
        => Cardinality({k \in AppFields : values'[k] # values[k]}) = 1]_vars

C13_Witness ==
  /\ event.kind = "handlePersonSubmit"
  /\ error = Undefined
  /\ addressBook # <<>>
  /\ addresses # <<>>
  /\ values["firstName"] = Str(<<" ", "A">>)
  /\ values["lastName"] = Str(<<"B">>)
  /\ values["postCode"] = Str(<<" ", "1">>)
  /\ Matches(addresses, values["selectedAddress"]) # {}

\* C17: a person submission that stores an entry leaves the error message as
\* it was.
C17_PersonSuccessKeepsError ==
  [][(event'.kind = "handlePersonSubmit" /\ addressBook' # addressBook)
     => error' = error]_vars

C17_Witness ==
  /\ event.kind = "handlePersonSubmit"
  /\ error = MsgNameMandatory
  /\ ~IsBlank(values["firstName"].val)
  /\ ~IsBlank(values["lastName"].val)
  /\ addressBook # <<>>

\* request r has just ended in Succeeded: the result list is its response
Succeeded(r) ==
  /\ event.kind = "fetchOk"
  /\ event.req = r
  /\ r \notin pending
  /\ Len(addresses) = Len(event.details)
  /\ \A i \in 1..Len(addresses) : addresses[i].id = event.details[i].id

\* request r has just ended in Failed: the error message is set
Failed(r) ==
  /\ event.kind = "fetchFailed"
  /\ event.req = r
  /\ r \notin pending
  /\ error = MsgFetchFailed

\* C14: when every issued request eventually completes, every request in
\* flight ends in Succeeded or in Failed, and whenever an error message is
\* displayed a field can be changed, the search form can be submitted and
\* "Clear all fields" can be clicked.
C14_EverySearchEnds ==
  /\ \A r \in 1..MaxRequests :
       (r \in pending) ~> (Succeeded(r) \/ Failed(r))
  /\ [](error # Undefined =>
          /\ ENABLED ChangeSearchInput
          /\ ENABLED ClearAll
          /\ Len(requests) < MaxRequests => ENABLED handleAddressSubmit)

C14_Witness ==
  /\ Failed(2)
  /\ 1 \notin pending
  /\ addresses # <<>>

\* C15: an entry is appended only when the selected address was chosen in
\* the result list that is displayed, never for a selection left over from
\* the results of an earlier search.
C15_AppendOnlyForDisplayedSelection ==
  [][addressBook' # addressBook => chosenHere]_vars

\* C16: from "Clear all fields" to the next form submission the result list
\* is empty and the error message is unset.
C16_ClearedUntilNextSubmit ==
  sinceClear => (addresses = <<>> /\ error = Undefined)

====
